---- MODULE Spec2Model ----
(***************************************************************************)
(* Model of the Directory-Downloader page script (src/index.ts, the        *)
(* vanilla variant, lines 1-975): the job queue runner, runDownload,       *)
(* downloadDirectory with its two bounded p-map passes, the archive        *)
(* builder and the cancel paths.                                           *)
(*                                                                         *)
(* Scheduling: JavaScript runs one task at a time.  Every action below is  *)
(* one task (a DOM event or the settling of one external operation)        *)
(* together with every promise continuation it makes runnable, up to the   *)
(* point where each async function waits on an external operation again.   *)
(* External operations are: getRepositoryInfo, listFiles, downloadFile,    *)
(* the dynamic import of jszip, and zip.generateAsync.                     *)
(***************************************************************************)
EXTENDS Integers, Sequences, FiniteSets, TLC

\* ---------------------------------------------------------------- bounds
MaxFiles == 3      \* largest directory listing
MaxConc  == 2      \* largest value selected in the concurrency box
MaxJobs  == 2      \* number of URLs enqueued during one page session
HydrateFiles == 1  \* largest listing on a page opened from a share link
ProbePaths == 6    \* number of distinct paths the filter is tried on
ProbeLen == 5      \* longest list the filter is tried on
ConcLen == 3       \* longest text the concurrency box is tried with
ReactFiles == 1    \* largest listing in the runs of the React variant
SingleFiles == 3   \* largest listing in the runs of the single-URL variant

\* --------------------------------------------------------------- constants
ConcDefault == 20
ConcMin     == 1
ConcMax     == 40

None == "none"
Slots == {"loop", "auto"}   \* who called runDownload: processQueue / hydrateFromQuery

\* ------------------------------------------------------------ descriptors
\* A descriptor is identified by its position in the listing; PathText gives
\* the characters of its path.
Letters == <<"a", "b", "c", "d", "e", "f", "g", "h">>

\* the path of descriptor 0 holds one of the blocked keywords
PathText(p) ==
    IF p = 0 THEN <<"V", "i", "r", "u", "s", ".", "m", "d">>
    ELSE IF p % 2 = 1 THEN <<Letters[p], ".", "T", "s">>
                      ELSE <<Letters[p], ".", "m", "d">>

\* what listFiles returns: n descriptors, after descriptor 0 when the
\* directory holds it
Listing(n) == [i \in 1..n |-> i]
ListingWith(n, flagged) == IF flagged THEN <<0>> \o Listing(n) ELSE Listing(n)

\* Texts the filter box can hold when a job is enqueued (0 = left empty).
FilterText(f) ==
    CASE f = 0 -> << >>
      [] f = 1 -> <<".", "t", "s">>
      [] f = 2 -> <<".", "m", "d">>
      [] f = 3 -> <<"T", "S">>
      [] f = 4 -> <<".", "t", "s", ",", " ", ".", "m", "d">>

FilterIds == {0, 1}

\* the texts the filter functions are tried on
ProbeFilterIds == {0, 1, 2, 3, 4}

Lower(c) ==
    CASE c = "T" -> "t"
      [] c = "S" -> "s"
      [] c = "M" -> "m"
      [] c = "D" -> "d"
      [] c = "V" -> "v"
      [] OTHER -> c

toLowerCase(s) == [i \in 1..Len(s) |-> Lower(s[i])]

endsWith(s, suffix) ==
    /\ Len(suffix) <= Len(s)
    /\ SubSeq(s, Len(s) - Len(suffix) + 1, Len(s)) = suffix

RECURSIVE splitComma(_)
splitComma(s) ==
    IF \E i \in 1..Len(s) : s[i] = ","
    THEN LET i == CHOOSE k \in 1..Len(s) :
                     s[k] = "," /\ \A m \in 1..(k - 1) : s[m] # ","
         IN  <<SubSeq(s, 1, i - 1)>> \o splitComma(SubSeq(s, i + 1, Len(s)))
    ELSE <<s>>

RECURSIVE trim(_)
trim(s) ==
    IF s = << >> THEN s
    ELSE IF s[1] = " " THEN trim(Tail(s))
    ELSE IF s[Len(s)] = " " THEN trim(SubSeq(s, 1, Len(s) - 1))
    ELSE s

\* parseFilter applied to the text of the filter box
parseFilter(text) ==
    LET parts    == splitComma(text)
        cleaned  == [i \in 1..Len(parts) |-> toLowerCase(trim(parts[i]))]
        nonEmpty == SelectSeq(cleaned, LAMBDA v : v # << >>)
    IN  [i \in 1..Len(nonEmpty) |->
            IF nonEmpty[i][1] = "." THEN nonEmpty[i] ELSE <<".">> \o nonEmpty[i]]

\* const blockedWords = /malware|virus|trojan/i, and blockedWords.test(s)
BlockedWords ==
    {<<"m", "a", "l", "w", "a", "r", "e">>, <<"v", "i", "r", "u", "s">>,
     <<"t", "r", "o", "j", "a", "n">>}

contains(s, word) ==
    \E i \in 1..(Len(s) - Len(word) + 1) : SubSeq(s, i, i + Len(word) - 1) = word

blockedWords(s) == \E word \in BlockedWords : contains(toLowerCase(s), word)

\* mutant: the path is compared as it is, without toLowerCase
filterFilesCaseSensitive(files, extensions) ==
    IF Len(extensions) = 0 THEN files
    ELSE SelectSeq(files, LAMBDA file :
             \E k \in 1..Len(extensions) :
                 endsWith(PathText(file), extensions[k]))

\* mutant: the first match is dropped
filterFilesDropFirst(files, extensions) ==
    IF Len(extensions) = 0 THEN files
    ELSE LET matches == SelectSeq(files, LAMBDA file :
                            \E k \in 1..Len(extensions) :
                                endsWith(toLowerCase(PathText(file)), extensions[k]))
         IN  IF matches = << >> THEN matches ELSE Tail(matches)

filterFiles(files, extensions) ==
    IF Len(extensions) = 0 THEN files
    ELSE SelectSeq(files, LAMBDA file :
             \E k \in 1..Len(extensions) :
                 endsWith(toLowerCase(PathText(file)), extensions[k]))

\* runDownload: filterOverride ? filterOverride.split(',') : parseFilter()
\* (the filter box is empty whenever an item carries no filter)
jobFilter(f) ==
    IF FilterText(f) # << >> THEN splitComma(FilterText(f))
                             ELSE parseFilter(<< >>)

\* Number.parseInt(ui.concurrency.value, 10), then the clamp.  A value of the
\* concurrency box is [nan |-> the text is no integer, n |-> the integer].
Min(a, b) == IF a < b THEN a ELSE b
Max(a, b) == IF a > b THEN a ELSE b

\* the decimal digits and their values
Digits == {"0", "1", "2", "3", "4", "5", "6", "7", "8", "9"}
DigitValue(ch) ==
    CASE ch = "0" -> 0 [] ch = "1" -> 1 [] ch = "2" -> 2 [] ch = "3" -> 3
      [] ch = "4" -> 4 [] ch = "5" -> 5 [] ch = "6" -> 6 [] ch = "7" -> 7
      [] ch = "8" -> 8 [] ch = "9" -> 9

\* Number.parseInt(text, 10): leading white space is skipped, one sign is
\* read, then the longest run of digits; what follows the run is ignored
\* and a text with no digit at that place gives NaN.
RECURSIVE trimStart(_)
trimStart(s) ==
    IF s # << >> /\ s[1] = " " THEN trimStart(Tail(s)) ELSE s

RECURSIVE digitRun(_)
digitRun(s) ==
    IF s # << >> /\ s[1] \in Digits THEN <<s[1]>> \o digitRun(Tail(s)) ELSE << >>

RECURSIVE digitsNumber(_, _)
digitsNumber(s, acc) ==
    IF s = << >> THEN acc ELSE digitsNumber(Tail(s), 10 * acc + DigitValue(s[1]))

parseInt(text) ==
    LET t == trimStart(text)
        signed == t # << >> /\ t[1] \in {"-", "+"}
        sign == IF signed /\ t[1] = "-" THEN -1 ELSE 1
        run == digitRun(IF signed THEN Tail(t) ELSE t)
    IN  IF run = << >> THEN [nan |-> TRUE, n |-> 0]
        ELSE [nan |-> FALSE, n |-> sign * digitsNumber(run, 0)]

\* the clamp without its lower end
safeConcurrencyNoFloor(c) ==
    IF c.nan THEN ConcDefault ELSE Min(ConcMax, c.n)

safeConcurrency(c) ==
    IF c.nan THEN ConcDefault ELSE Max(ConcMin, Min(ConcMax, c.n))

ConcChoices == {[nan |-> FALSE, n |-> c] : c \in 1..MaxConc}

\* descriptor 2 reports no numeric size, descriptor p reports p bytes
HasSize(p) == p # 2
SizeOf(p) == p

\* estimateBytes that adds a size for every descriptor, reported or not
RECURSIVE estimateBytesEverySize(_)
estimateBytesEverySize(files) ==
    IF files = << >> THEN 0
    ELSE Max(1, SizeOf(Head(files))) + estimateBytesEverySize(Tail(files))

RECURSIVE estimateBytes(_)
estimateBytes(files) ==
    IF files = << >> THEN 0
    ELSE (IF HasSize(Head(files)) THEN SizeOf(Head(files)) ELSE 0)
         + estimateBytes(Tail(files))

\* ------------------------------------------------------------------ state
VARIABLES
    downloadState,  \* the downloadState object (controller, counters, queue, flag)
    jobs,           \* per caller of runDownload: the locals of the running invocation
    busy,           \* setBusy: the start button is disabled, the cancel button enabled
    jszip,          \* the dynamic import of jszip: "idle", "loading" or "loaded"
    orphans,        \* mappers of ended jobs still waiting on their zipPromise
    enq,            \* number of queue items created so far
    started,        \* ids of the jobs runDownload was called for, in call order
    ended,          \* ids of the jobs whose runDownload returned, in return order
    last,           \* per caller: how its latest finished job ended
    probe,          \* a call of the filter functions on inputs of its own
    online          \* navigator.onLine

vars ==
    <<downloadState, jobs, busy, jszip, orphans, enq, started, ended, last, probe,
      online>>

World ==
    [ds |-> downloadState, jobs |-> jobs, busy |-> busy, jszip |-> jszip,
     orphans |-> orphans, enq |-> enq, started |-> started, ended |-> ended,
     last |-> last, probe |-> probe, online |-> online]

Commit(w) ==
    /\ downloadState' = w.ds
    /\ jobs' = w.jobs
    /\ busy' = w.busy
    /\ jszip' = w.jszip
    /\ orphans' = w.orphans
    /\ enq' = w.enq
    /\ started' = w.started
    /\ ended' = w.ended
    /\ last' = w.last
    /\ probe' = w.probe
    /\ online' = w.online

NoCounts == [p \in 0..MaxFiles |-> 0]

IdleJob ==
    [id |-> -1, phase |-> None, aborted |-> FALSE, midPass |-> FALSE,
     late |-> FALSE, lost |-> {}, filter |-> 0,
     files |-> << >>, conc |-> 0, batch |-> << >>, st |-> << >>,
     zip |-> {}, fetches |-> NoCounts,
     ok1 |-> {}, fail1 |-> {}, ok2 |-> {}, fail2 |-> {}]

NoLast ==
    [id |-> -1, outcome |-> None, aborted |-> FALSE, late |-> FALSE,
     lost |-> FALSE, message |-> None]

\* no call of the filter functions under way
NoProbe ==
    [stage |-> "off", files |-> << >>, text |-> 0, extensions |-> << >>,
     out |-> << >>, again |-> << >>,
     raw |-> << >>, parsed |-> [nan |-> TRUE, n |-> 0], conc |-> 0]

InitialState ==
    [ds |-> [controller |-> None, totalFiles |-> 0, downloadedFiles |-> 0,
             estimatedBytes |-> 0, failedFiles |-> << >>, queue |-> << >>,
             isProcessingQueue |-> FALSE],
     jobs |-> [r \in Slots |-> IdleJob],
     busy |-> FALSE, jszip |-> "idle", orphans |-> 0, enq |-> 0,
     started |-> << >>, ended |-> << >>,
     last |-> [r \in Slots |-> NoLast],
     probe |-> NoProbe, online |-> TRUE]

InPass(j) == j.phase \in {"pass1", "pass2"}
Indices(j, status) == {i \in 1..Len(j.st) : j.st[i] = status}
InFlight(j) == Cardinality(Indices(j, "fetching")) + Cardinality(Indices(j, "gotblob"))

\* ------------------------------------------------------------ runDownload
\* runDownload up to its first await (getRepositoryInfo): setBusy(true), a new
\* AbortController stored in downloadState.controller.
StartJob(w, r, item) ==
    [w EXCEPT !.busy = TRUE,
              !.ds.controller = r,
              !.jobs[r] = [IdleJob EXCEPT !.id = item.id, !.phase = "resolving",
                                          !.filter = item.filter],
              !.started = Append(@, item.id)]

\* runDownload lines 657-660: offline, the call returns before setBusy
SkipJob(w, r, item) ==
    [w EXCEPT !.started = Append(@, item.id),
              !.ended = Append(@, item.id),
              !.last[r] = [NoLast EXCEPT !.id = item.id, !.outcome = "offline"]]

\* mutant: the loop takes the newest item (queue.pop()) instead of the oldest
LoopContinuePop(w) ==
    IF Len(w.ds.queue) > 0
    THEN StartJob([w EXCEPT !.ds.queue = SubSeq(@, 1, Len(@) - 1)], "loop",
                  w.ds.queue[Len(w.ds.queue)])
    ELSE [w EXCEPT !.ds.isProcessingQueue = FALSE]

\* processQueue: the while loop, from its condition to the next await
RECURSIVE LoopContinue(_)
LoopContinue(w) ==
    IF Len(w.ds.queue) > 0
    THEN IF w.online
         THEN StartJob([w EXCEPT !.ds.queue = Tail(@)], "loop", Head(w.ds.queue))
         ELSE LoopContinue(SkipJob([w EXCEPT !.ds.queue = Tail(@)], "loop",
                                   Head(w.ds.queue)))
    ELSE [w EXCEPT !.ds.isProcessingQueue = FALSE]

\* the error kinds getRepositoryInfo reports in its result
ErrorKinds ==
    {"NOT_A_REPOSITORY", "NOT_A_DIRECTORY", "REPOSITORY_NOT_FOUND", "BRANCH_NOT_FOUND"}

\* mutant: every kind gets the message of the default branch
parseErrorMessageDefault(error) == "Unknown repository parsing error."

parseErrorMessage(error) ==
    CASE error = "NOT_A_REPOSITORY" -> "Not a repository URL."
      [] error = "NOT_A_DIRECTORY" -> "That URL points to a file, not a directory."
      [] error = "REPOSITORY_NOT_FOUND" ->
             "Repository not found. If it is private, provide a valid token."
      [] error = "BRANCH_NOT_FOUND" -> "Branch or tag could not be resolved."
      [] OTHER -> "Unknown repository parsing error."

\* every fetch of the job's latest batch failed while the browser was offline
AllLost(j) == j.batch # << >> /\ j.lost = {j.batch[i] : i \in 1..Len(j.batch)}

\* runDownload: the finally block and the return to the caller
EndJob(w, r, outcome) ==
    LET j  == w.jobs[r]
        w1 == [w EXCEPT !.busy = FALSE,
                        !.ds.controller = None,
                        !.jobs[r] = IdleJob,
                        !.orphans = @ + Cardinality(Indices(j, "gotblob")),
                        !.ended = Append(@, j.id),
                        !.last[r] = [id |-> j.id, outcome |-> outcome,
                                     aborted |-> j.aborted, late |-> j.late,
                                     lost |-> AllLost(j), message |-> None]]
    IN  IF r = "loop" THEN LoopContinue(w1) ELSE w1

\* runDownload catch: the test that tells a cancellation from an error
isCanceled(w, errorIsAbort) ==
    \/ (w.ds.controller # None /\ w.jobs[w.ds.controller].aborted)
    \/ errorIsAbort

JobThrows(w, r, errorIsAbort) ==
    EndJob(w, r, IF isCanceled(w, errorIsAbort) THEN "canceled" ELSE "error")

\* downloadDirectory lines 610-624, the catch around the two passes, and the
\* catch of runDownload that receives what it throws
downloadCatch(w, r, errorIsAbort) ==
    IF w.jobs[r].aborted \/ errorIsAbort THEN JobThrows(w, r, TRUE)
    ELSE EndJob(w, r, IF isCanceled(w, FALSE) THEN "canceled"
                      ELSE IF ~w.online THEN "networkLost"
                      ELSE "error")

\* ------------------------------------------------- p-map and downloadBatch
\* downloadFile (./download.js) hands the signal to fetch: the calls whose
\* signal is aborted reject with an AbortError, the others settle on their own.
\* The import of jszip is taken to succeed.
abortedFetches(j) == IF j.aborted THEN Indices(j, "fetching") ELSE {}

\* A mapper whose downloadFile call rejected because the signal is aborted
\* rethrows (catch, line 592): p-map rejects, downloadBatch throws, the catch
\* of downloadDirectory turns it into an AbortError and runDownload ends.
\* Every fetch in flight is rejected by the same abort.
AbortRejections(w, r) ==
    LET j == w.jobs[r]
    IN  IF InPass(j) /\ abortedFetches(j) # {}
        THEN downloadCatch(
                 [w EXCEPT !.jobs[r].st =
                     [i \in 1..Len(j.st) |->
                         IF i \in abortedFetches(j) THEN "rejected" ELSE j.st[i]]],
                 r, TRUE)
        ELSE w

\* mutant: files still failing after the retry abort the job
FinalizeStrict(w, r) ==
    IF Len(w.ds.failedFiles) > 0 THEN JobThrows(w, r, FALSE)
    ELSE [w EXCEPT !.jobs[r].phase =
              IF w.jszip = "loaded" THEN "generating" ELSE "awaitzip"]

\* await zipPromise; zip.generateAsync(...)   (lines 626-628)
Finalize(w, r) ==
    [w EXCEPT !.jobs[r].phase = IF w.jszip = "loaded" THEN "generating" ELSE "awaitzip"]

\* the mapper calls downloadFile for batch item i; `late` notes a call made
\* after the signal was aborted in the middle of a pass
StartMapper(j, i) ==
    [j EXCEPT !.st[i] = "fetching", !.fetches[j.batch[i]] = @ + 1,
              !.late = @ \/ j.midPass]

RECURSIVE StartMappers(_, _)
StartMappers(j, k) ==
    IF k = 0 \/ Indices(j, "pending") = {} THEN j
    ELSE LET i == CHOOSE m \in Indices(j, "pending") :
                      \A n \in Indices(j, "pending") : m <= n
         IN  StartMappers(StartMapper(j, i), k - 1)

\* mutant: the {concurrency} option is not passed, p-map starts every mapper
pMapStartUnbounded(j, batch) ==
    StartMappers([j EXCEPT !.batch = batch, !.lost = {},
                           !.st = [i \in 1..Len(batch) |-> "pending"]],
                 Len(batch))

\* pMap(batch, mapper, {concurrency}): the first `concurrency` calls of next()
pMapStart(j, batch) ==
    StartMappers([j EXCEPT !.batch = batch, !.lost = {},
                           !.st = [i \in 1..Len(batch) |-> "pending"]],
                 j.conc)

\* downloadBatch(batch, label)
downloadBatch(w, r, phase, batch) ==
    IF batch = << >>
    THEN Finalize([w EXCEPT !.jobs[r].phase = phase, !.jobs[r].batch = << >>,
                            !.jobs[r].st = << >>], r)
    ELSE AbortRejections(
             [w EXCEPT !.jobs[r] = pMapStart([w.jobs[r] EXCEPT !.phase = phase], batch)],
             r)

includes(seq, x) == \E i \in 1..Len(seq) : seq[i] = x

\* mutant: the retry batch is the failure record itself, in failure order
retryTargetsFailureOrder(files, failedFiles) == failedFiles

\* the failed descriptors, in list order (line 605)
retryTargets(files, failedFiles) ==
    SelectSeq(files, LAMBDA file : includes(failedFiles, file))

\* mutant: the failure record is not cleared before the retry pass
PassResolvedNoClear(w, r) ==
    LET j == w.jobs[r]
    IN  IF j.phase = "pass1" /\ Len(w.ds.failedFiles) > 0
        THEN downloadBatch(w, r, "pass2", retryTargets(j.files, w.ds.failedFiles))
        ELSE Finalize(w, r)

\* mutant: the retry block is a loop, it runs again while failures remain
PassResolvedRepeat(w, r) ==
    LET j == w.jobs[r]
    IN  IF Len(w.ds.failedFiles) > 0
        THEN downloadBatch([w EXCEPT !.ds.failedFiles = << >>], r, "pass2",
                           retryTargets(j.files, w.ds.failedFiles))
        ELSE Finalize(w, r)

\* p-map resolved: downloadBatch returns to the try block (lines 603-609)
PassResolved(w, r) ==
    LET j == w.jobs[r]
    IN  IF j.phase = "pass1" /\ Len(w.ds.failedFiles) > 0
        THEN downloadBatch([w EXCEPT !.ds.failedFiles = << >>], r, "pass2",
                           retryTargets(j.files, w.ds.failedFiles))
        ELSE Finalize(w, r)

\* mutant: the pass is taken as finished once every descriptor was admitted
pMapNextEarly(w, r) ==
    LET j == w.jobs[r]
    IN  IF ~InPass(j) THEN w
        ELSE IF Indices(j, "pending") # {}
        THEN AbortRejections([w EXCEPT !.jobs[r] = StartMappers(j, 1)], r)
        ELSE PassResolved(w, r)

\* mutant: p-map never resolves its promise
pMapNextNoResolve(w, r) ==
    LET j == w.jobs[r]
    IN  IF ~InPass(j) THEN w
        ELSE IF Indices(j, "pending") # {}
        THEN AbortRejections([w EXCEPT !.jobs[r] = StartMappers(j, 1)], r)
        ELSE w

\* mutant: descriptors are admitted in batches, a new batch of `concurrency`
\* calls only when every call of the batch before has settled
pMapNextBatched(w, r) ==
    LET j == w.jobs[r]
    IN  IF ~InPass(j) \/ InFlight(j) > 0 THEN w
        ELSE IF Indices(j, "pending") # {}
        THEN AbortRejections([w EXCEPT !.jobs[r] = StartMappers(j, j.conc)], r)
        ELSE PassResolved(w, r)

\* mutant: after its first calls p-map admits nothing more
pMapNextNoRefill(w, r) ==
    LET j == w.jobs[r]
    IN  IF ~InPass(j) \/ Indices(j, "pending") # {} THEN w
        ELSE IF InFlight(j) = 0 THEN PassResolved(w, r)
        ELSE w

\* p-map's next(), called when a mapper has resolved
pMapNext(w, r) ==
    LET j == w.jobs[r]
    IN  IF ~InPass(j) THEN w
        ELSE IF Indices(j, "pending") # {}
        THEN AbortRejections([w EXCEPT !.jobs[r] = StartMappers(j, 1)], r)
        ELSE IF InFlight(j) = 0 THEN PassResolved(w, r)
        ELSE w

\* mapper lines 585-590: zip.file(relativePath, blob); downloadedFiles++
MapperSuccess(w, r, i) ==
    LET j == w.jobs[r]
        p == j.batch[i]
    IN  [w EXCEPT !.jobs[r].st[i] = "done",
                  !.jobs[r].zip = @ \cup {p},
                  !.jobs[r].ok1 = IF j.phase = "pass1" THEN @ \cup {p} ELSE @,
                  !.jobs[r].ok2 = IF j.phase = "pass2" THEN @ \cup {p} ELSE @,
                  !.ds.downloadedFiles = @ + 1]

\* mutant: the mapper has no catch, a failed fetch rejects the whole batch
MapperFailureThrows(w, r, i) == downloadCatch(w, r, FALSE)

\* mapper lines 591-598 with the signal not aborted: failedFiles.push(file.path)
MapperFailure(w, r, i) ==
    LET j == w.jobs[r]
        p == j.batch[i]
    IN  [w EXCEPT !.jobs[r].st[i] = "done",
                  !.jobs[r].fail1 = IF j.phase = "pass1" THEN @ \cup {p} ELSE @,
                  !.jobs[r].fail2 = IF j.phase = "pass2" THEN @ \cup {p} ELSE @,
                  !.jobs[r].lost = IF w.online THEN @ ELSE @ \cup {p},
                  !.ds.failedFiles = Append(@, p)]

\* ------------------------------------------------------ downloadDirectory
\* mutant: the test of an empty filter result (lines 550-553) is missing
AfterListingNoEmptyCheck(w, r, files, concurrency) ==
    LET j        == w.jobs[r]
        filtered == filterFiles(files, jobFilter(j.filter))
    IN  IF Len(files) = 0
        THEN EndJob([w EXCEPT !.ds.totalFiles = 0, !.ds.downloadedFiles = 0], r, "empty")
        ELSE IF \E i \in 1..Len(filtered) : blockedWords(PathText(filtered[i]))
        THEN JobThrows(w, r, FALSE)
        ELSE downloadBatch(
                 [w EXCEPT !.ds.totalFiles = Len(filtered),
                           !.ds.downloadedFiles = 0,
                           !.ds.estimatedBytes = estimateBytes(filtered),
                           !.ds.failedFiles = << >>,
                           !.jszip = IF @ = "idle" THEN "loading" ELSE @,
                           !.jobs[r].files = filtered,
                           !.jobs[r].conc = safeConcurrency(concurrency)],
                 r, "pass1", filtered)

\* mutant: the test of the blocked keywords (lines 555-557) is missing
AfterListingNoBlockedCheck(w, r, files, concurrency) ==
    LET j        == w.jobs[r]
        filtered == filterFiles(files, jobFilter(j.filter))
    IN  IF Len(files) = 0
        THEN EndJob([w EXCEPT !.ds.totalFiles = 0, !.ds.downloadedFiles = 0], r, "empty")
        ELSE IF Len(filtered) = 0
        THEN EndJob(w, r, "nomatch")
        ELSE downloadBatch(
                 [w EXCEPT !.ds.totalFiles = Len(filtered),
                           !.ds.downloadedFiles = 0,
                           !.ds.estimatedBytes = estimateBytes(filtered),
                           !.ds.failedFiles = << >>,
                           !.jszip = IF @ = "idle" THEN "loading" ELSE @,
                           !.jobs[r].files = filtered,
                           !.jobs[r].conc = safeConcurrency(concurrency)],
                 r, "pass1", filtered)

\* lines 541-603, run when listFiles has returned `files`
AfterListing(w, r, files, concurrency) ==
    LET j        == w.jobs[r]
        filtered == filterFiles(files, jobFilter(j.filter))
    IN  IF Len(files) = 0
        THEN EndJob([w EXCEPT !.ds.totalFiles = 0, !.ds.downloadedFiles = 0], r, "empty")
        ELSE IF Len(filtered) = 0
        THEN EndJob(w, r, "nomatch")
        ELSE IF \E i \in 1..Len(filtered) : blockedWords(PathText(filtered[i]))
        THEN JobThrows(w, r, FALSE)
        ELSE downloadBatch(
                 [w EXCEPT !.ds.totalFiles = Len(filtered),
                           !.ds.downloadedFiles = 0,
                           !.ds.estimatedBytes = estimateBytes(filtered),
                           !.ds.failedFiles = << >>,
                           !.jszip = IF @ = "idle" THEN "loading" ELSE @,
                           !.jobs[r].files = filtered,
                           !.jobs[r].conc = safeConcurrency(concurrency)],
                 r, "pass1", filtered)

\* the continuations of job r that the loaded jszip module makes runnable
RECURSIVE SuccessAll(_, _, _)
SuccessAll(w, r, todo) ==
    IF todo = {} THEN w
    ELSE LET i == CHOOSE m \in todo : TRUE
         IN  SuccessAll(MapperSuccess(w, r, i), r, todo \ {i})

RECURSIVE NextTimes(_, _, _, _, _)
NextTimes(w, r, id, phase, k) ==
    IF k = 0 \/ w.jobs[r].id # id \/ w.jobs[r].phase # phase THEN w
    ELSE NextTimes(pMapNext(w, r), r, id, phase, k - 1)

ResumeOnZip(w, r) ==
    LET j == w.jobs[r]
    IN  IF j.phase = "awaitzip" THEN [w EXCEPT !.jobs[r].phase = "generating"]
        ELSE IF InPass(j)
        THEN NextTimes(SuccessAll(w, r, Indices(j, "gotblob")), r, j.id, j.phase,
                       Cardinality(Indices(j, "gotblob")))
        ELSE w

\* resetSession
resetSession(w) ==
    [w EXCEPT !.ds.totalFiles = 0, !.ds.downloadedFiles = 0,
              !.ds.estimatedBytes = 0, !.ds.failedFiles = << >>]

\* controller?.abort(): sets the signal of the job whose controller is stored;
\* `midPass` notes that the signal went from clear to aborted during a pass
abort(w) ==
    IF w.ds.controller = None THEN w
    ELSE LET j == w.jobs[w.ds.controller]
         IN  [w EXCEPT !.jobs[w.ds.controller].aborted = TRUE,
                       !.jobs[w.ds.controller].midPass =
                           IF j.aborted THEN @ ELSE InPass(j)]

\* clearAll, then the continuations its abort made runnable
clearAll(w) ==
    LET c  == w.ds.controller
        w1 == resetSession([abort(w) EXCEPT !.ds.controller = None])
        w2 == [w1 EXCEPT !.ds.queue = << >>, !.busy = FALSE]
    IN  IF c = None THEN w2 ELSE AbortRejections(w2, c)

\* the items made from n URLs typed in the box; `noop` is set later, when
\* processQueue is called for the item and returns at its guard
newItems(w, n, f) == [i \in 1..n |-> [id |-> w.enq + i, filter |-> f, noop |-> FALSE]]

\* mutant: the new items are put in front of the pending ones (unshift)
enqueueFront(w, n, f) ==
    [w EXCEPT !.ds.queue = newItems(w, n, f) \o @,
              !.enq = @ + n]

\* downloadState.queue.push(...urls.map(...)) for n URLs typed in the box
enqueue(w, n, f) ==
    [w EXCEPT !.ds.queue = @ \o newItems(w, n, f),
              !.enq = @ + n]

\* mutant: processQueue without its isProcessingQueue guard
processQueueNoGuard(w) ==
    LoopContinue([w EXCEPT !.ds.isProcessingQueue = TRUE])

\* processQueue, from the call to its first await or return
processQueue(w) ==
    IF w.ds.isProcessingQueue
    THEN IF w.ds.queue = << >> THEN w
         ELSE [w EXCEPT !.ds.queue[Len(w.ds.queue)].noop = TRUE]
    ELSE LoopContinue([w EXCEPT !.ds.isProcessingQueue = TRUE])

\* ---------------------------------------------------------------- actions
\* form submit (the start button is disabled while busy)
Submit(n, f) ==
    /\ ~busy
    /\ enq + n <= MaxJobs
    /\ Commit(processQueue(enqueue(World, n, f)))

\* Ctrl/Cmd+Enter on the document
CtrlEnter(n, f) ==
    /\ enq + n <= MaxJobs
    /\ Commit(processQueue(enqueue(World, n, f)))

\* "Add to queue" button (disabled while busy)
AddQueue(n, f) ==
    /\ ~busy
    /\ enq + n <= MaxJobs
    /\ Commit(enqueue(World, n, f))

\* a "Clear queue" button that resets the page as the Cancel button does
ClearQueueClearsAll ==
    /\ downloadState.queue # << >>
    /\ Commit(clearAll(World))

\* "Clear queue" button
ClearQueue ==
    /\ downloadState.queue # << >>
    /\ Commit([World EXCEPT !.ds.queue = << >>])

\* Cancel button (enabled while busy)
CancelButton ==
    /\ busy
    /\ Commit(clearAll(World))

\* "Clear" button of the log, always enabled: the same clearAll
ClearLogButton ==
    /\ Commit(clearAll(World))

\* Escape key
Escape ==
    /\ downloadState.controller # None
    /\ Commit(AbortRejections(abort(World), downloadState.controller))

\* runDownload lines 673-676: addStatus(parseErrorMessage(...)); return
ResolveError(w, r, error) ==
    [EndJob(w, r, "resolveError") EXCEPT !.last[r].message = parseErrorMessage(error)]

\* getRepositoryInfo settles: with a directory ("ok") or with an error kind
ResolveDone(r, result) ==
    /\ jobs[r].phase = "resolving"
    /\ online
    /\ Commit(IF result \in ErrorKinds THEN ResolveError(World, r, result)
                                      ELSE [World EXCEPT !.jobs[r].phase = "listing"])

\* listFiles settles with a listing of n files, and descriptor 0 when
\* `flagged`; the concurrency box holds c
ListDone(r, n, flagged, c) ==
    /\ jobs[r].phase = "listing"
    /\ online
    /\ Commit(AfterListing(World, r, ListingWith(n, flagged), c))

\* one downloadFile call settles: fulfilled with a blob, or rejected (the
\* only way to settle while offline)
FetchSettle(r, i, ok) ==
    /\ InPass(jobs[r])
    /\ ok => online
    /\ i \in Indices(jobs[r], "fetching")
    /\ Commit(IF ok
              THEN IF jszip = "loaded"
                   THEN pMapNext(MapperSuccess(World, r, i), r)
                   ELSE [World EXCEPT !.jobs[r].st[i] = "gotblob"]
              ELSE pMapNext(MapperFailure(World, r, i), r))

\* the jszip module has loaded: every pending zipPromise is fulfilled
JSZipLoaded ==
    /\ jszip = "loading"
    /\ online
    /\ Commit(ResumeOnZip(
                ResumeOnZip([World EXCEPT !.jszip = "loaded",
                                          !.ds.downloadedFiles = @ + orphans,
                                          !.orphans = 0],
                            "auto"),
                "loop"))

\* zip.generateAsync settles: saveFile, then runDownload returns
GenerateDone(r) ==
    /\ jobs[r].phase = "generating"
    /\ Commit(EndJob(World, r, "saved"))

Step(r, maxFiles) ==
    \/ \E result \in {"ok"} \cup ErrorKinds : ResolveDone(r, result)
    \/ \E n \in 0..maxFiles, flagged \in BOOLEAN, c \in ConcChoices :
           ListDone(r, n, flagged, c)
    \/ \E i \in 1..MaxFiles, ok \in BOOLEAN : FetchSettle(r, i, ok)
    \/ GenerateDone(r)

UserEvent ==
    \/ \E n \in 1..MaxJobs, f \in FilterIds : Submit(n, f)
    \/ \E n \in 1..MaxJobs, f \in FilterIds : CtrlEnter(n, f)
    \/ \E n \in 1..MaxJobs, f \in FilterIds : AddQueue(n, f)
    \/ ClearQueue
    \/ CancelButton
    \/ ClearLogButton
    \/ Escape

Holds(w) ==
    /\ downloadState = w.ds
    /\ jobs = w.jobs
    /\ busy = w.busy
    /\ jszip = w.jszip
    /\ orphans = w.orphans
    /\ enq = w.enq
    /\ started = w.started
    /\ ended = w.ended
    /\ last = w.last
    /\ probe = w.probe
    /\ online = w.online

\* init() on a page loaded without a `url` query parameter
Init == Holds(InitialState)

Next == UserEvent \/ JSZipLoaded \/ Step("loop", MaxFiles)

Spec == Init /\ [][Next]_vars

\* The operations a downloading job waits for settle: every downloadFile call
\* (fulfilled or rejected), the import of jszip, and zip.generateAsync.  Each
\* conjunct is weak fairness of the action; for FetchSettle and JSZipLoaded it
\* is written out as <>[]enabled => []<>step, with the guard of the action as
\* its enabling condition.
FetchPending == InPass(jobs["loop"]) /\ Indices(jobs["loop"], "fetching") # {}

Settling ==
    /\ \/ []<>(~FetchPending)
       \/ []<><<\E i \in 1..MaxFiles, ok \in BOOLEAN : FetchSettle("loop", i, ok)>>_vars
    /\ \/ []<>(jszip # "loading")
       \/ []<><<JSZipLoaded>>_vars
    /\ WF_vars(GenerateDone("loop"))

SpecLive == Spec /\ Settling

\* As SpecLive, but a downloadFile call need not settle: the import of jszip
\* and zip.generateAsync do.  What the other calls do is stated where needed.
Stalling ==
    /\ \/ []<>(jszip # "loading")
       \/ []<><<JSZipLoaded>>_vars
    /\ WF_vars(GenerateDone("loop"))

SpecStall == Spec /\ Stalling

\* The browser loses or regains its connection (navigator.onLine).  While it
\* is offline the requests of getRepositoryInfo and listFiles fail, and the
\* call throws into the catch of runDownload.
GoOffline ==
    /\ online
    /\ Commit([World EXCEPT !.online = FALSE])

GoOnline ==
    /\ ~online
    /\ Commit([World EXCEPT !.online = TRUE])

RequestFails(r) ==
    /\ jobs[r].phase \in {"resolving", "listing"}
    /\ ~online
    /\ Commit(JobThrows(World, r, FALSE))

NextOffline == Next \/ GoOffline \/ GoOnline \/ RequestFails("loop")

SpecOffline == Init /\ [][NextOffline]_vars

\* init() on a share link: hydrateFromQuery calls runDownload(url) itself
hydrateFromQuery(w) == StartJob(w, "auto", [id |-> 0, filter |-> 0, noop |-> FALSE])

InitHydrate == Holds(hydrateFromQuery(InitialState))

NextHydrate ==
    UserEvent \/ JSZipLoaded \/ Step("loop", HydrateFiles) \/ Step("auto", HydrateFiles)

SpecHydrate == InitHydrate /\ [][NextHydrate]_vars

\* --------------------------------------------- the filter functions alone
\* Lists of distinct descriptors (the paths of a listing are unique), in any
\* order, and the texts of ProbeFilterIds.
ProbeLists ==
    {l \in UNION {[1..n -> 1..ProbePaths] : n \in 0..ProbeLen} :
        \A a, b \in 1..Len(l) : a # b => l[a] # l[b]}

InitFilter ==
    \E l \in ProbeLists, f \in ProbeFilterIds :
        Holds([InitialState EXCEPT
                  !.probe = [NoProbe EXCEPT !.stage = "input", !.files = l, !.text = f]])

\* runDownload line 710: the extension set of the job
SelectFilter ==
    /\ probe.stage = "input"
    /\ Commit([World EXCEPT !.probe.stage = "selected",
                            !.probe.extensions = jobFilter(probe.text)])

\* downloadDirectory line 549
ApplyFilter ==
    /\ probe.stage = "selected"
    /\ Commit([World EXCEPT !.probe.stage = "filtered",
                            !.probe.out = filterFiles(probe.files, probe.extensions)])

\* filterFiles applied to its own result
ApplyFilterAgain ==
    /\ probe.stage = "filtered"
    /\ Commit([World EXCEPT !.probe.stage = "again",
                            !.probe.again = filterFiles(probe.out, probe.extensions)])

NextFilter == SelectFilter \/ ApplyFilter \/ ApplyFilterAgain

SpecFilter == InitFilter /\ [][NextFilter]_vars

\* ------------------------------------------------- the React variant
\* App (lines 1137-2102) keeps the queue in queueRef and in the state
\* queueItems.  addToQueue (lines 1633-1652) does not push: it hands React
\* the updater  prev => { merged = [...prev, ...nextItems];
\* queueRef.current = merged; return merged }.  React calls an updater at
\* once when the component has no update pending (`eager`), and otherwise
\* while rendering, after the event handler has returned.
addToQueueThenProcess(w, n, f, eager) ==
    IF eager \/ w.ds.isProcessingQueue
    THEN processQueue(enqueue(w, n, f))
    ELSE enqueue(processQueue(w), n, f)

\* onSubmit, lines 1654-1660: addToQueue(); processQueue()
onSubmit(n, f, eager) ==
    /\ ~busy
    /\ enq + n <= MaxJobs
    /\ Commit(addToQueueThenProcess(World, n, f, eager))

\* onKeyDown, lines 1674-1682: the same two calls on Ctrl/Cmd+Enter
onKeyDown(n, f, eager) ==
    /\ enq + n <= MaxJobs
    /\ Commit(addToQueueThenProcess(World, n, f, eager))

ReactEvent ==
    \/ \E n \in 1..MaxJobs, f \in FilterIds, eager \in BOOLEAN : onSubmit(n, f, eager)
    \/ \E n \in 1..MaxJobs, f \in FilterIds, eager \in BOOLEAN : onKeyDown(n, f, eager)
    \/ \E n \in 1..MaxJobs, f \in FilterIds : AddQueue(n, f)
    \/ ClearQueue
    \/ CancelButton
    \/ ClearLogButton

NextReact == ReactEvent \/ JSZipLoaded \/ Step("loop", ReactFiles)

SpecReact == Init /\ [][NextReact]_vars

\* ------------------------------------------ the single-URL variant
\* src/unnamed/part_000: no queue, no filter, no retry pass, and the mapper
\* has no catch.  downloadState holds controller, totalFiles and
\* downloadedFiles.  A slot of `jobs` holds one call of startDownload; a call
\* that has returned keeps its slot, in phase "rejected", while downloadFile
\* calls of its rejected p-map are still in flight.

\* startDownload up to its first await (lines 508-535)
startDownload(w, r) ==
    [w EXCEPT !.busy = TRUE,
              !.ds.controller = r,
              !.enq = @ + 1,
              !.jobs[r] = [IdleJob EXCEPT !.id = w.enq + 1, !.phase = "resolving"],
              !.started = Append(@, w.enq + 1)]

\* startDownload's finally block and return (lines 591-596).  Mappers that
\* wait on zipPromise and downloadFile calls in flight outlive the call.
singleFinally(w, r, outcome) ==
    LET j == w.jobs[r]
        left == [i \in 1..Len(j.st) |-> IF j.st[i] = "fetching" THEN "fetching" ELSE "done"]
    IN  [w EXCEPT !.busy = FALSE,
                  !.ds.controller = None,
                  !.orphans = @ + Cardinality(Indices(j, "gotblob")),
                  !.ended = Append(@, j.id),
                  !.last[r] = [NoLast EXCEPT !.id = j.id, !.outcome = outcome,
                                             !.aborted = j.aborted],
                  !.jobs[r] = IF Indices(j, "fetching") = {} THEN IdleJob
                              ELSE [j EXCEPT !.phase = "rejected", !.st = left]]

\* an error reaches the catch of startDownload (lines 566-590)
singleThrows(w, r, errorIsAbort) ==
    singleFinally(w, r, IF isCanceled(w, errorIsAbort) THEN "canceled" ELSE "error")

\* p-map has rejected: the catch of downloadDirectory (lines 477-491) throws
\* an AbortError when the signal is aborted, another Error otherwise
singleCatch(w, r, errorIsAbort) ==
    singleThrows(w, r, w.jobs[r].aborted \/ errorIsAbort)

\* the downloadFile calls of a job whose signal is aborted reject: the
\* mapper throws and p-map rejects
singleAbortRejections(w, r) ==
    LET j == w.jobs[r]
    IN  IF j.phase = "pass1" /\ abortedFetches(j) # {}
        THEN singleCatch(
                 [w EXCEPT !.jobs[r].st =
                     [i \in 1..Len(j.st) |->
                         IF i \in abortedFetches(j) THEN "rejected" ELSE j.st[i]]],
                 r, TRUE)
        ELSE w

\* the mapper (lines 460-475) has no catch: a rejected downloadFile call
\* rejects the mapper and, with it, p-map
singleMapperFailure(w, r, i) ==
    singleCatch([w EXCEPT !.jobs[r].st[i] = "rejected"], r, FALSE)

\* the mapper after `await zipPromise`: zip.file(...); downloadedFiles++
singleMapperSuccess(w, r, i) ==
    [w EXCEPT !.jobs[r].st[i] = "done",
              !.jobs[r].zip = @ \cup {w.jobs[r].batch[i]},
              !.ds.downloadedFiles = @ + 1]

\* p-map's next() after a mapper has resolved; when the last one has, pMap
\* resolves and downloadDirectory goes on to generateAsync (lines 493-495)
singleNext(w, r) ==
    LET j == w.jobs[r]
    IN  IF j.phase # "pass1" THEN w
        ELSE IF Indices(j, "pending") # {}
        THEN singleAbortRejections([w EXCEPT !.jobs[r] = StartMappers(j, 1)], r)
        ELSE IF InFlight(j) = 0 THEN [w EXCEPT !.jobs[r].phase = "generating"]
        ELSE w

\* downloadDirectory (lines 437-459) when listFiles has returned `files`
singleAfterListing(w, r, files, concurrency) ==
    IF Len(files) = 0
    THEN singleFinally([w EXCEPT !.ds.totalFiles = 0, !.ds.downloadedFiles = 0],
                       r, "empty")
    ELSE IF \E i \in 1..Len(files) : blockedWords(PathText(files[i]))
    THEN singleThrows(w, r, FALSE)
    ELSE singleAbortRejections(
             [w EXCEPT !.ds.totalFiles = Len(files),
                       !.ds.downloadedFiles = 0,
                       !.jszip = IF @ = "idle" THEN "loading" ELSE @,
                       !.jobs[r] = pMapStart([w.jobs[r] EXCEPT
                                                 !.phase = "pass1",
                                                 !.files = files,
                                                 !.conc = safeConcurrency(concurrency)],
                                             files)],
             r)

\* the mappers of job r that waited on zipPromise go on, then p-map's next()
\* runs once for each of them
RECURSIVE singleSuccessAll(_, _, _)
singleSuccessAll(w, r, todo) ==
    IF todo = {} THEN w
    ELSE LET i == CHOOSE m \in todo : TRUE
         IN  singleSuccessAll(singleMapperSuccess(w, r, i), r, todo \ {i})

RECURSIVE singleNextTimes(_, _, _, _)
singleNextTimes(w, r, id, k) ==
    IF k = 0 \/ w.jobs[r].id # id \/ w.jobs[r].phase # "pass1" THEN w
    ELSE singleNextTimes(singleNext(w, r), r, id, k - 1)

singleResumeOnZip(w, r) ==
    LET j == w.jobs[r]
    IN  IF j.phase = "pass1"
        THEN singleNextTimes(singleSuccessAll(w, r, Indices(j, "gotblob")), r, j.id,
                             Cardinality(Indices(j, "gotblob")))
        ELSE w

\* form submit: the start button and the URL field are disabled while busy
SingleSubmit(r) ==
    /\ ~busy
    /\ jobs[r].phase = None
    /\ enq < MaxJobs
    /\ Commit(startDownload(World, r))

\* Ctrl/Cmd+Enter on the document (lines 652-661): startDownload()
SingleCtrlEnter(r) ==
    /\ jobs[r].phase = None
    /\ enq < MaxJobs
    /\ Commit(startDownload(World, r))

\* Cancel button and Escape key (lines 619-621, 653-655): controller?.abort(),
\* which does nothing when no controller is stored
SingleCancel ==
    /\ downloadState.controller # None
    /\ Commit(singleAbortRejections(abort(World), downloadState.controller))

\* getRepositoryInfo settles (lines 535-539)
SingleResolveDone(r, result) ==
    /\ jobs[r].phase = "resolving"
    /\ Commit(IF result \in ErrorKinds
              THEN [singleFinally(World, r, "resolveError") EXCEPT
                       !.last[r].message = parseErrorMessage(result)]
              ELSE [World EXCEPT !.jobs[r].phase = "listing"])

\* listFiles settles
SingleListDone(r, n, flagged, c) ==
    /\ jobs[r].phase = "listing"
    /\ Commit(singleAfterListing(World, r, ListingWith(n, flagged), c))

\* one downloadFile call settles, of a running call of startDownload or of
\* one that has returned
SingleFetchSettle(r, i, ok) ==
    /\ jobs[r].phase \in {"pass1", "rejected"}
    /\ i \in Indices(jobs[r], "fetching")
    /\ Commit(
         IF jobs[r].phase = "pass1"
         THEN IF ok
              THEN IF jszip = "loaded"
                   THEN singleNext(singleMapperSuccess(World, r, i), r)
                   ELSE [World EXCEPT !.jobs[r].st[i] = "gotblob"]
              ELSE singleMapperFailure(World, r, i)
         ELSE LET w1 == IF ~ok THEN World
                        ELSE IF jszip = "loaded"
                        THEN [World EXCEPT !.ds.downloadedFiles = @ + 1]
                        ELSE [World EXCEPT !.orphans = @ + 1]
                  st == [jobs[r].st EXCEPT ![i] = "done"]
              IN  [w1 EXCEPT !.jobs[r] =
                      IF \E k \in 1..Len(st) : st[k] = "fetching"
                      THEN [jobs[r] EXCEPT !.st = st] ELSE IdleJob])

\* the jszip module has loaded
SingleJSZipLoaded ==
    /\ jszip = "loading"
    /\ Commit(singleResumeOnZip(
                singleResumeOnZip([World EXCEPT !.jszip = "loaded",
                                                !.ds.downloadedFiles = @ + orphans,
                                                !.orphans = 0],
                                  "auto"),
                "loop"))

\* zip.generateAsync settles: saveFile (lines 495-505), then the finally
SingleGenerateDone(r) ==
    /\ jobs[r].phase = "generating"
    /\ Commit(singleFinally(World, r, "saved"))

SingleStep(r) ==
    \/ \E result \in {"ok"} \cup ErrorKinds : SingleResolveDone(r, result)
    \/ \E n \in 0..SingleFiles, flagged \in BOOLEAN, c \in ConcChoices :
           SingleListDone(r, n, flagged, c)
    \/ \E i \in 1..SingleFiles, ok \in BOOLEAN : SingleFetchSettle(r, i, ok)
    \/ SingleGenerateDone(r)

\* init(): hydrateFromQuery (lines 664-680) calls startDownload when the
\* page was opened with a `url` query parameter
InitSingle ==
    \/ Holds(InitialState)
    \/ Holds(startDownload(InitialState, "auto"))

NextSingle ==
    \/ \E r \in Slots : SingleSubmit(r)
    \/ \E r \in Slots : SingleCtrlEnter(r)
    \/ SingleCancel
    \/ SingleJSZipLoaded
    \/ \E r \in Slots : SingleStep(r)

SpecSingle == InitSingle /\ [][NextSingle]_vars

\* the runs in which Ctrl/Cmd+Enter is pressed only while the page is idle
NextSingleIdleStart ==
    \/ \E r \in Slots : SingleSubmit(r)
    \/ \E r \in Slots : ~busy /\ SingleCtrlEnter(r)
    \/ SingleCancel
    \/ SingleJSZipLoaded
    \/ \E r \in Slots : SingleStep(r)

SpecSingleIdleStart == InitSingle /\ [][NextSingleIdleStart]_vars

\* ------------------------------------------- the concurrency limit alone
\* Texts the value of the concurrency box can be: white space, signs, a
\* point, a letter and digits, up to ConcLen characters.
ConcChars == {" ", "-", "+", ".", "x", "0", "1", "4", "9"}
ConcTexts == UNION {[1..n -> ConcChars] : n \in 0..ConcLen}

InitConc ==
    \E t \in ConcTexts :
        Holds([InitialState EXCEPT
                  !.probe = [NoProbe EXCEPT !.stage = "box", !.raw = t]])

\* downloadDirectory line 565
ParseConcurrency ==
    /\ probe.stage = "box"
    /\ Commit([World EXCEPT !.probe.stage = "parsed",
                            !.probe.parsed = parseInt(probe.raw)])

\* downloadDirectory line 566
ClampConcurrency ==
    /\ probe.stage = "parsed"
    /\ Commit([World EXCEPT !.probe.stage = "clamped",
                            !.probe.conc = safeConcurrency(probe.parsed)])

NextConc == ParseConcurrency \/ ClampConcurrency

SpecConc == InitConc /\ [][NextConc]_vars

\* ================================================================= claims
Running == {r \in Slots : jobs[r].phase # None}
Fetching(j) == Cardinality(Indices(j, "fetching"))
count(seq, x) == Cardinality({i \in 1..Len(seq) : seq[i] = x})

\* C1: in each pass of downloadDirectory the number of downloadFile calls
\* started and not yet settled never exceeds the concurrency limit, which lies
\* in [1,40]; mappers still holding a slot are counted as well.
C1_InFlightBounded ==
    \A r \in Slots :
        InPass(jobs[r]) =>
            /\ jobs[r].conc \in ConcMin..ConcMax
            /\ Fetching(jobs[r]) <= jobs[r].conc
            /\ InFlight(jobs[r]) <= jobs[r].conc

\* C1 witness: a retry pass over more descriptors than the limit, saturated
C1_Witness ==
    \E r \in Slots :
        /\ jobs[r].phase = "pass2"
        /\ Len(jobs[r].batch) > jobs[r].conc
        /\ Fetching(jobs[r]) = jobs[r].conc
        /\ jobs[r].conc = 2

\* C2: the jobs processQueue takes start in enqueue order, each one after the
\* runDownload of the one before has returned, and they end in that order.
C2_QueueFifo ==
    /\ \A a, b \in 1..Len(started) : a < b => started[a] < started[b]
    /\ Len(ended) <= Len(started)
    /\ Len(started) <= Len(ended) + 1
    /\ ended = SubSeq(started, 1, Len(ended))
    /\ (jobs["loop"].phase # None) =
           (Len(started) = Len(ended) + 1 /\ jobs["loop"].id = started[Len(started)])

\* C2 witness: two queued jobs have run and ended, the second after the first
C2_Witness ==
    /\ Len(ended) = 2
    /\ ended[1] < ended[2]

\* C3: at most one runDownload invocation is active at any time, the
\* auto-started one included.
C3_OneActiveJob == Cardinality(Running) <= 1

\* the runDownload invocation of slot r returns in this step
Ended(r) == jobs[r].phase # None /\ jobs'[r].id # jobs[r].id
Downloading(j) == j.phase \in {"pass1", "pass2", "awaitzip", "generating"}
SetOf(seq) == {seq[i] : i \in 1..Len(seq)}

\* C4: a downloadFile rejection that is no cancellation records the path in
\* failedFiles (the retry block then moves it into the retry batch) and leaves
\* the pass running: the fetches in flight stay in flight, the next pending
\* descriptor is admitted, a pass ends only with every descriptor admitted, and
\* nothing but a cancellation ends a job inside a pass.
C4_Step(r) ==
    LET j  == jobs[r]
        j2 == jobs'[r]
    IN  /\ (InPass(j) /\ Ended(r)) => last'[r].aborted
        /\ (InPass(j) /\ j2.id = j.id /\ j2.phase # j.phase) => Indices(j, "pending") = {}
        /\ \A p \in 1..MaxFiles :
               (/\ j2.id = j.id
                /\ \/ p \in j2.fail1 \ j.fail1
                   \/ p \in j2.fail2 \ j.fail2)
               => /\ \/ includes(downloadState'.failedFiles, p)
                     \/ j.phase = "pass1" /\ j2.phase = "pass2" /\ includes(j2.batch, p)
                  /\ j2.phase = j.phase =>
                         \A k \in Indices(j, "fetching") :
                             j.batch[k] # p => j2.st[k] = "fetching"
                  /\ Indices(j, "pending") # {} =>
                         /\ j2.phase = j.phase
                         /\ Cardinality(Indices(j2, "pending"))
                                = Cardinality(Indices(j, "pending")) - 1

C4_FailureRecordedPassGoesOn == [][\A r \in Slots : C4_Step(r)]_vars

\* C4 witness: after a recorded failure the pass still has fetches in flight
C4_Witness ==
    \E r \in Slots :
        /\ jobs[r].phase = "pass1"
        /\ ~jobs[r].aborted
        /\ jobs[r].fail1 # {}
        /\ \A p \in jobs[r].fail1 : includes(downloadState.failedFiles, p)
        /\ Indices(jobs[r], "fetching") # {}
        /\ \E i \in Indices(jobs[r], "fetching") : jobs[r].fetches[jobs[r].batch[i]] = 1

C6_RetryOnce ==
    \A r \in Slots : \A p \in 1..MaxFiles :
        /\ jobs[r].fetches[p] <= 2
        /\ jobs[r].phase = "pass1" => jobs[r].fetches[p] <= 1
        /\ jobs[r].fetches[p] = 2 => p \in jobs[r].fail1

\* C6 witness: a file fetched twice and failed twice, the job goes on to the archive
C6_Witness ==
    \E r \in Slots : \E p \in 1..MaxFiles :
        /\ jobs[r].phase = "generating"
        /\ jobs[r].fetches[p] = 2
        /\ p \in jobs[r].fail2

\* C7: a job that is not cancelled and has files failing both passes still
\* generates and saves its archive: the archive holds the filtered files
\* except the permanently failed ones, those stay listed in failedFiles, and
\* once downloading a job that is not cancelled ends only by saving.
C7_Step(r) ==
    LET j == jobs[r]
    IN  /\ (j.phase \in {"awaitzip", "generating"} /\ ~j.aborted) =>
               /\ j.zip = SetOf(j.files) \ j.fail2
               /\ SetOf(downloadState.failedFiles) = j.fail2
        /\ (Downloading(j) /\ Ended(r) /\ ~last'[r].aborted) =>
               /\ j.phase = "generating"
               /\ last'[r].outcome = "saved"
               /\ downloadState'.failedFiles = downloadState.failedFiles

C8_Step(r) ==
    LET j == jobs[r]
    IN  j.phase = "generating" =>
            /\ \A i \in 1..Len(j.st) : j.st[i] = "done"
            /\ jobs'[r].id = j.id => jobs'[r].zip = j.zip

C8_FinalizeAfterSettled == [][\A r \in Slots : C8_Step(r)]_vars

\* C8 witness: the archive is being generated after a retry pass has run
C8_Witness ==
    \E r \in Slots :
        /\ jobs[r].phase = "generating"
        /\ jobs[r].fail1 # {}
        /\ jobs[r].ok1 # {}
        /\ Len(jobs[r].files) > jobs[r].conc

\* C9: once the signal of the running job is aborted, downloadedFiles +
\* |failedFiles| does not increase for that job.
C9_FrozenAfterAbort ==
    [][\A r \in Slots :
          (jobs[r].aborted /\ jobs'[r].id = jobs[r].id) =>
              downloadState'.downloadedFiles + Len(downloadState'.failedFiles)
                  <= downloadState.downloadedFiles + Len(downloadState.failedFiles)]_vars

\* C10: a job whose signal was aborted before its archive was saved saves no
\* archive.
C10_NoArchiveAfterAbort ==
    \A r \in Slots : last[r].outcome = "saved" => ~last[r].aborted

\* C11: when the signal is aborted while a pass is running, no downloadFile
\* call is started afterwards (neither for a pending descriptor nor by a retry
\* pass), the job does not enter a retry pass, and failedFiles does not grow.
C11_Step(r) ==
    LET j  == jobs[r]
        j2 == jobs'[r]
    IN  /\ (Ended(r) /\ last'[r].aborted) => ~last'[r].late
        /\ (j.midPass /\ j2.id = j.id) =>
               /\ j2.fetches = j.fetches
               /\ ~(j.phase = "pass1" /\ j2.phase = "pass2")
               /\ Len(downloadState'.failedFiles) <= Len(downloadState.failedFiles)

C11_CancelledBatch == [][\A r \in Slots : C11_Step(r)]_vars

\* C12: a cancellation (Cancel button or Escape key) leaves the pending queue
\* as it was: the same jobs in the same order.
C12_CancelKeepsQueue ==
    [][(CancelButton \/ Escape) => downloadState'.queue = downloadState.queue]_vars

\* C13: when the running job ends cancelled, the run loop starts no further
\* job in that step: the next pending job waits for a new call of processQueue.
C13_NoAutoAdvance ==
    [][\A r \in Slots :
          (Ended(r) /\ last'[r].outcome = "canceled") => started' = started]_vars

\* C14: with every downloadFile call settling, a job that has started its
\* first pass and is not cancelled ends with its archive saved, and when the
\* archive is generated each filtered descriptor has exactly one terminal
\* outcome: counted in downloadedFiles, or listed in failedFiles.
C14_Settled ==
    \A r \in Slots :
        (jobs[r].phase = "generating" /\ ~jobs[r].aborted) =>
            \A p \in SetOf(jobs[r].files) :
                (p \in jobs[r].ok1 \cup jobs[r].ok2)
                    # includes(downloadState.failedFiles, p)

Sum(ds) == ds.downloadedFiles + Len(ds.failedFiles)

\* C15: while a pass of a job is running, downloadedFiles + |failedFiles| is
\* at most totalFiles: in every state inside a pass, and at the moment the
\* last mapper of a pass has completed.
C15_Step(r) ==
    InPass(jobs[r]) =>
        /\ Sum(downloadState) <= downloadState.totalFiles
        /\ jobs'[r].id = jobs[r].id => Sum(downloadState') <= downloadState'.totalFiles

C15_CountsWithinTotal == [][\A r \in Slots : C15_Step(r)]_vars

\* C16: while a job is active, from the call of runDownload to its return,
\* every path in failedFiles belongs to that job's filtered list (which is
\* empty until the job has listed and filtered).
C16_FailedOfThisJob ==
    \A r \in Slots :
        jobs[r].phase # None =>
            SetOf(downloadState.failedFiles) \subseteq SetOf(jobs[r].files)

\* C17: from the moment a job has filtered its listing until it ends,
\* totalFiles is the length of the filtered list.
C17_TotalFixed ==
    \A r \in Slots :
        Downloading(jobs[r]) => downloadState.totalFiles = Len(jobs[r].files)

\* C18: when runDownload starts a job the session statistics hold nothing of
\* an earlier job: the three counters are 0 and failedFiles is empty.
C18_ResetAtJobStart ==
    [][started' # started =>
          /\ downloadState'.totalFiles = 0
          /\ downloadState'.downloadedFiles = 0
          /\ downloadState'.estimatedBytes = 0
          /\ downloadState'.failedFiles = << >>]_vars

Ids(items) == [i \in 1..Len(items) |-> items[i].id]

\* C19: a call of processQueue made while a run loop is active dequeues no
\* job and starts none, and at most one run loop is active: the loop job runs
\* only under isProcessingQueue, and the loop calls runDownload only when its
\* previous runDownload call has returned.
C19_OneLoop ==
    jobs["loop"].phase # None => downloadState.isProcessingQueue

C19_Step ==
    /\ (downloadState.isProcessingQueue /\ enq' > enq) =>
           /\ started' = started
           /\ jobs' = jobs
           /\ Len(downloadState'.queue) = Len(downloadState.queue) + (enq' - enq)
           /\ downloadState'.isProcessingQueue
    /\ (jobs'["loop"].phase # None /\ jobs'["loop"].id # jobs["loop"].id) =>
           \/ jobs["loop"].phase = None
           \/ last'["loop"].id = jobs["loop"].id

C19_SecondLoopIsNoop == []C19_OneLoop /\ [][C19_Step]_vars

\* C19 witness: Ctrl/Cmd+Enter during a running job called processQueue,
\* which returned at its guard; the job goes on and the item is pending
C19_Witness ==
    /\ busy
    /\ jobs["loop"].phase = "pass1"
    /\ downloadState.queue # << >>
    /\ downloadState.queue[Len(downloadState.queue)].noop

\* C20: an enqueue puts the new jobs at the tail, behind the pending ones in
\* their old order, whether the runner is idle or a job is running; the
\* running job and the session statistics are unchanged (an idle runner
\* started by the same event takes the head of the resulting queue).
C20_Step ==
    enq' > enq =>
        LET all == Ids(downloadState.queue) \o [i \in 1..(enq' - enq) |-> enq + i]
        IN  /\ downloadState'.totalFiles = downloadState.totalFiles
            /\ downloadState'.downloadedFiles = downloadState.downloadedFiles
            /\ downloadState'.estimatedBytes = downloadState.estimatedBytes
            /\ downloadState'.failedFiles = downloadState.failedFiles
            /\ IF downloadState.isProcessingQueue \/ started' = started
               THEN /\ Ids(downloadState'.queue) = all
                    /\ SubSeq(downloadState'.queue, 1, Len(downloadState.queue))
                           = downloadState.queue
                    /\ jobs' = jobs
                    /\ started' = started
               ELSE /\ Ids(downloadState'.queue) = Tail(all)
                    /\ started' = Append(started, Head(all))

Matches(p, extensions) ==
    \E k \in 1..Len(extensions) :
        endsWith(toLowerCase(PathText(p)), extensions[k])

Pos(seq, x) == CHOOSE i \in 1..Len(seq) : seq[i] = x

\* C21: filterFiles returns exactly the descriptors whose lower-cased path
\* ends with one of the extensions, each once and in the order of the input
\* list; with no extension it returns the input list.
C21_FilterExact ==
    probe.stage \in {"filtered", "again"} =>
        IF Len(probe.extensions) = 0
        THEN probe.out = probe.files
        ELSE /\ SetOf(probe.out) =
                    {p \in SetOf(probe.files) : Matches(p, probe.extensions)}
             /\ Len(probe.out) = Cardinality(SetOf(probe.out))
             /\ \A a, b \in 1..Len(probe.out) :
                    a < b => Pos(probe.files, probe.out[a]) < Pos(probe.files, probe.out[b])

\* C21 witness: the filter ".ts" on a list of two .Ts and three .md paths
\* has kept the two
C21_Witness ==
    /\ probe.stage = "filtered"
    /\ probe.extensions = <<FilterText(1)>>
    /\ Len(probe.files) = 5
    /\ Cardinality({p \in SetOf(probe.files) : p % 2 = 0}) = 3
    /\ Len(probe.out) = 2

\* the entry is trimmed, lower-cased, non-empty and starts with "."
NormalizedExtension(e) ==
    /\ e # << >>
    /\ e[1] = "."
    /\ trim(e) = e
    /\ toLowerCase(e) = e

\* C22: the extension set a job hands to filterFiles is normalized.
C22_FilterNormalized ==
    probe.stage \in {"selected", "filtered", "again"} =>
        \A k \in 1..Len(probe.extensions) : NormalizedExtension(probe.extensions[k])

\* C23: filtering the result of filterFiles again with the same extensions
\* gives the same list.
C23_FilterIdempotent ==
    probe.stage = "again" => probe.again = probe.out

\* C23 witness: a filter that removed some paths and kept others was applied twice
C23_Witness ==
    /\ probe.stage = "again"
    /\ probe.out # << >>
    /\ Len(probe.out) < Len(probe.files)
    /\ Len(probe.out) > 1

\* C24: a job whose filter leaves no descriptor ends there, as "no files
\* matched" and not as an error: it has issued no file fetch, no archive
\* object is made, generated or saved, and the run loop goes on to the next
\* queued job; after any step no job downloads or archives an empty selection.
C24_Step(r) ==
    /\ (jobs[r].phase = "listing" /\ jobs'[r] # jobs[r]) =>
           \/ Ended(r) /\ last'[r].outcome = "nomatch"
           \/ \A n \in 0..MaxFiles, flagged \in BOOLEAN :
                  (/\ ListingWith(n, flagged) # << >>
                   /\ filterFiles(ListingWith(n, flagged), jobFilter(jobs[r].filter)) = << >>
                   /\ Ended(r) \/ jobs'[r].files = << >>)
                  => \A c \in ConcChoices : ~ListDone(r, n, flagged, c)
    /\ (Ended(r) /\ last'[r].outcome = "nomatch") =>
           /\ jobs[r].phase = "listing"
           /\ jobs[r].fetches = NoCounts
           /\ jszip' = jszip
           /\ r = "loop" =>
                  IF downloadState.queue # << >>
                  THEN /\ started' = Append(started, downloadState.queue[1].id)
                       /\ jobs'[r].id = downloadState.queue[1].id
                       /\ jobs'[r].phase = "resolving"
                  ELSE /\ started' = started
                       /\ ~downloadState'.isProcessingQueue

C24_NothingSelected ==
    [][\A r \in Slots :
          /\ C24_Step(r)
          /\ Downloading(jobs'[r]) => jobs'[r].files # << >>]_vars

\* C24 witness: a job ended with no file matching its filter and the run loop
\* has started the next queued job
C24_Witness ==
    /\ last["loop"].outcome = "nomatch"
    /\ jobs["loop"].phase = "resolving"
    /\ jobs["loop"].id = last["loop"].id + 1
    /\ downloadState.isProcessingQueue

\* C26: a listing whose selected paths include a blocked keyword ends the job
\* in that step, by the thrown error (a step out of the listing phase ends the
\* job so, or it is no ListDone step with such a selection): no downloadFile call was or is issued,
\* no archive object is made, generated or saved; after any step no job
\* downloads a selection holding such a path, and no such path was fetched.
Selected(r, n, flagged) == filterFiles(ListingWith(n, flagged), jobFilter(jobs[r].filter))
C26_Flagged == {p \in 0..MaxFiles : blockedWords(PathText(p))}
HasBlocked(files) == \E i \in 1..Len(files) : files[i] \in C26_Flagged

C26_Step(r) ==
    (jobs[r].phase = "listing" /\ jobs'[r] # jobs[r]) =>
        \/ /\ Ended(r)
           /\ last'[r].outcome \in {"error", "canceled"}
           /\ last'[r].outcome = "canceled" => last'[r].aborted
           /\ jobs[r].fetches = NoCounts
           /\ jszip' = jszip
           /\ orphans' = orphans
        \/ \A n \in 0..MaxFiles, flagged \in BOOLEAN :
               (/\ HasBlocked(Selected(r, n, flagged))
                /\ Ended(r) \/ jobs'[r].files = Selected(r, n, flagged))
               => \A c \in ConcChoices : ~ListDone(r, n, flagged, c)

C26_BlockedBeforeFetch ==
    [][\A r \in Slots :
          /\ C26_Step(r)
          /\ ~HasBlocked(jobs'[r].files)
          /\ \A p \in C26_Flagged : jobs'[r].fetches[p] = 0]_vars

\* C26 witness: a job ended on the thrown error of the listing step while the
\* archive module had never been asked for
C26_Witness ==
    /\ last["loop"].outcome = "error"
    /\ ~last["loop"].aborted
    /\ jszip = "idle"
    /\ downloadState.totalFiles = 0

\* C27: when getRepositoryInfo reports one of the four error kinds the job
\* ends in that step with the message of that kind; it never reached the
\* listing, issued no fetch, made no archive, and the page is not busy
\* afterwards unless the run loop started the next queued job in the same step.
C27_Message(kind) ==
    CASE kind = "NOT_A_REPOSITORY" -> "Not a repository URL."
      [] kind = "NOT_A_DIRECTORY" -> "That URL points to a file, not a directory."
      [] kind = "REPOSITORY_NOT_FOUND" ->
             "Repository not found. If it is private, provide a valid token."
      [] kind = "BRANCH_NOT_FOUND" -> "Branch or tag could not be resolved."

C27_Step(r) ==
    \A kind \in ErrorKinds :
        ResolveDone(r, kind) =>
            /\ Ended(r)
            /\ last'[r].outcome = "resolveError"
            /\ last'[r].message = C27_Message(kind)
            /\ jobs[r].phase = "resolving"
            /\ jobs[r].fetches = NoCounts
            /\ jobs[r].zip = {}
            /\ jszip' = jszip
            /\ busy' = (r = "loop" /\ downloadState.queue # << >>)
            /\ busy' => (jobs'["loop"].phase = "resolving" /\ started' # started)

C27_ResolutionError == [][\A r \in Slots : C27_Step(r)]_vars

\* C27 witness: a job ended on BRANCH_NOT_FOUND and left the page idle
C27_Witness ==
    /\ last["loop"].outcome = "resolveError"
    /\ last["loop"].message = "Branch or tag could not be resolved."
    /\ ~busy
    /\ Running = {}
    /\ jszip = "idle"

\* C28: a job whose signal was aborted, in whatever phase, ends in the
\* Cancelled state ("Download canceled by user.") and in no other.
C28_CancelledInEveryPhase ==
    \A r \in Slots : last[r].aborted => last[r].outcome = "canceled"

\* C30: when a job that was not cancelled saves its archive, downloadedFiles
\* is the number of its files whose fetch succeeded and the number of entries
\* of its archive, and downloadedFiles + |failedFiles| = totalFiles.
C30_Step(r) ==
    (GenerateDone(r) /\ ~jobs[r].aborted) =>
        /\ downloadState.downloadedFiles = Cardinality(jobs[r].ok1 \cup jobs[r].ok2)
        /\ downloadState.downloadedFiles = Cardinality(jobs[r].zip)
        /\ Sum(downloadState) = downloadState.totalFiles

C30_NoLostUpdate == [][\A r \in Slots : C30_Step(r)]_vars

\* C25: a job whose fetches all failed because the browser was offline (every
\* descriptor of its latest batch) ends with the network-lost error, and so
\* without a saved archive.
C25_NetworkLost ==
    \A r \in Slots :
        (last[r].lost /\ ~last[r].aborted) => last[r].outcome = "networkLost"

\* C29: a downloadFile call that never settles holds one slot of the pass and
\* no more.  With a limit of 2 or more, if every other call of the job settles
\* then every other descriptor of the batch is admitted and gets its outcome
\* (or the job is cancelled); and while a call is outstanding, each settling
\* of another one leaves the pass running and the outstanding calls in flight,
\* admits the next pending descriptor, and moves the counters by exactly its
\* own outcome: one more in downloadedFiles with its archive entry, or its path
\* appended to failedFiles.
C29_OthersSettle(k) ==
    \A i \in (1..MaxFiles) \ {k} :
        \/ []<>(~(InPass(jobs["loop"]) /\ i \in Indices(jobs["loop"], "fetching")))
        \/ []<><<\E ok \in BOOLEAN : FetchSettle("loop", i, ok)>>_vars

C29_OthersDone(k) ==
    LET j == jobs["loop"]
    IN  \/ ~InPass(j)
        \/ j.aborted
        \/ j.conc < 2
        \/ \A i \in (1..Len(j.batch)) \ {k} : j.st[i] = "done"

C29_Step ==
    LET j  == jobs["loop"]
        j2 == jobs'["loop"]
    IN  \A i \in 1..MaxFiles, ok \in BOOLEAN :
            (/\ FetchSettle("loop", i, ok)
             /\ ~j.aborted
             /\ j.conc >= 2
             /\ Indices(j, "fetching") \ {i} # {})
            => /\ j2.id = j.id /\ j2.phase = j.phase
               /\ \A k \in Indices(j, "fetching") \ {i} : j2.st[k] = "fetching"
               /\ (ok /\ jszip = "loaded") =>
                      /\ downloadState'.downloadedFiles = downloadState.downloadedFiles + 1
                      /\ downloadState'.failedFiles = downloadState.failedFiles
                      /\ j2.zip = j.zip \cup {j.batch[i]}
               /\ ~ok =>
                      /\ downloadState'.failedFiles =
                             Append(downloadState.failedFiles, j.batch[i])
                      /\ downloadState'.downloadedFiles = downloadState.downloadedFiles
                      /\ j2.zip = j.zip
               /\ (ok /\ jszip # "loaded") =>
                      /\ downloadState' = downloadState
                      /\ InFlight(j2) = InFlight(j)
               /\ (Indices(j, "pending") # {} /\ (~ok \/ jszip = "loaded")) =>
                      /\ Fetching(j2) = Fetching(j)
                      /\ Cardinality(Indices(j2, "pending")) =
                             Cardinality(Indices(j, "pending")) - 1

C29_StalledFetchOneSlot ==
    /\ [][C29_Step]_vars
    /\ \A k \in 1..MaxFiles : C29_OthersSettle(k) => []<>C29_OthersDone(k)

\* C29 witness: three descriptors, limit 2: the first call is still
\* outstanding while the two others were admitted and have their outcome
C29_Witness ==
    LET j == jobs["loop"]
    IN  /\ j.phase = "pass1"
        /\ ~j.aborted
        /\ j.conc = 2
        /\ j.st = <<"fetching", "done", "done">>
        /\ downloadState.downloadedFiles + Len(downloadState.failedFiles) = 2

\* C31: a job that is not cancelled leaves its first pass for the retry pass
\* if and only if failedFiles is then non-empty; the retry pass starts with
\* failedFiles emptied, its batch is the filtered list restricted to the paths
\* that were in failedFiles, in list order, its limit is the limit of the
\* first pass and its first calls are issued at once; a retry pass follows
\* nothing but the first pass of the same job.
C31_Captured(r) ==
    SetOf(downloadState.failedFiles) \cup (jobs'[r].fail1 \ jobs[r].fail1)

C31_Step(r) ==
    LET j  == jobs[r]
        j2 == jobs'[r]
    IN  /\ (j.phase = "pass1" /\ ~j.aborted /\ j2.id = j.id /\ j2.phase # "pass1") =>
               IF C31_Captured(r) # {}
               THEN /\ j2.phase = "pass2"
                    /\ j2.batch = SelectSeq(j.files, LAMBDA p : p \in C31_Captured(r))
                    /\ j2.conc = j.conc
                    /\ j2.files = j.files
                    /\ downloadState'.failedFiles = << >>
                    /\ Fetching(j2) = Min(j.conc, Len(j2.batch))
                    /\ \A i \in 1..Len(j2.batch) :
                           j2.st[i] = IF i <= j.conc THEN "fetching" ELSE "pending"
               ELSE j2.phase \in {"awaitzip", "generating"}
        /\ (j2.phase = "pass2" /\ j.phase # "pass2") =>
               (j.phase = "pass1" /\ j2.id = j.id)

C31_RetryPass == [][\A r \in Slots : C31_Step(r)]_vars

\* C31 witness: two of three descriptors failed in the first pass and are
\* being fetched again, the third is in the archive
C31_Witness ==
    LET j == jobs["loop"]
    IN  /\ j.phase = "pass2"
        /\ ~j.aborted
        /\ j.files = <<1, 2, 3>>
        /\ j.batch = <<1, 3>>
        /\ j.ok1 = {2}
        /\ j.conc = 2
        /\ Fetching(j) = 2
        /\ downloadState.failedFiles = << >>

\* C32: the pool saturates.  A descriptor is settled when its mapper is done
\* (counted in downloadedFiles or listed in failedFiles); one that is admitted
\* and not settled holds a slot.  In a pass of a job that is not cancelled the
\* slots held are min(limit, descriptors not settled) after every step, and a
\* step that settles descriptors while others are pending admits as many of
\* the pending ones, lowest index first, in that same step.
C32_Unsettled(j) == Len(j.st) - Cardinality(Indices(j, "done"))

C32_Step(r) ==
    LET j  == jobs[r]
        j2 == jobs'[r]
        settled == Indices(j2, "done") \ Indices(j, "done")
        admitted == Indices(j, "pending") \ Indices(j2, "pending")
    IN  /\ (InPass(j2) /\ ~j2.aborted) =>
               InFlight(j2) = Min(j2.conc, C32_Unsettled(j2))
        /\ (InPass(j) /\ ~j2.aborted /\ j2.id = j.id /\ j2.phase = j.phase) =>
               /\ Cardinality(admitted) =
                      Min(Cardinality(settled), Cardinality(Indices(j, "pending")))
               /\ \A a \in admitted, b \in Indices(j2, "pending") : a < b
               /\ \A a \in admitted : j2.st[a] = "fetching"

C33_Start(text) ==
    LET first == IF \E i \in 1..Len(text) : text[i] # " "
                 THEN CHOOSE i \in 1..Len(text) :
                          text[i] # " " /\ \A k \in 1..(i - 1) : text[k] = " "
                 ELSE Len(text) + 1
    IN  IF first <= Len(text) /\ text[first] \in {"-", "+"} THEN first + 1 ELSE first
\* the place where the digits that start at C33_Start end
C33_End(text) ==
    CHOOSE e \in (C33_Start(text) - 1)..Len(text) :
        /\ \A k \in C33_Start(text)..e : text[k] \in Digits
        /\ e < Len(text) => text[e + 1] \notin Digits
C33_Pow10(k) == IF k = 0 THEN 1 ELSE IF k = 1 THEN 10 ELSE IF k = 2 THEN 100 ELSE 1000
C33_Magnitude(text) ==
    LET a == C33_Start(text)
        e == C33_End(text)
        places == [k \in 0..3 |-> IF e - k >= a
                                   THEN DigitValue(text[e - k]) * C33_Pow10(k) ELSE 0]
    IN  places[0] + places[1] + places[2] + places[3]
C33_Negative(text) ==
    C33_Start(text) > 1 /\ text[C33_Start(text) - 1] = "-"
C33_Clamped ==
    probe.stage = "clamped" =>
        LET text == probe.raw
            holdsInteger == C33_End(text) >= C33_Start(text)
            requested == IF C33_Negative(text) THEN 0 - C33_Magnitude(text)
                                               ELSE C33_Magnitude(text)
        IN  /\ probe.conc \in ConcMin..ConcMax
            /\ ~holdsInteger => probe.conc = 20
            /\ (holdsInteger /\ requested < 1) => probe.conc = 1
            /\ (holdsInteger /\ requested > 40) => probe.conc = 40
            /\ (holdsInteger /\ requested \in 1..40) => probe.conc = requested

C33_Witness ==
    /\ probe.stage = "clamped"
    /\ probe.raw = <<"-", "4">>
    /\ probe.conc = 1

\* C34: estimatedBytes is written when a job has filtered its listing, with
\* the sum of the sizes the filtered descriptors report (0 for a descriptor
\* that reports none), and no later step of the job (a fetch that succeeds,
\* a fetch that fails, the start of the retry pass, the archive) changes it:
\* it is written only by the step that filters a listing and by the reset of
\* clearAll (the Cancel and Clear buttons).
RECURSIVE C34_SumOver(_)
C34_SumOver(S) ==
    IF S = {} THEN 0
    ELSE LET p == CHOOSE x \in S : TRUE
         IN  (IF HasSize(p) THEN SizeOf(p) ELSE 0) + C34_SumOver(S \ {p})
C34_Filtered(r) ==
    jobs[r].phase = "listing" /\ jobs'[r].phase = "pass1" /\ jobs'[r].id = jobs[r].id
C34_Step ==
    /\ \A r \in Slots :
           C34_Filtered(r) =>
               downloadState'.estimatedBytes = C34_SumOver(SetOf(jobs'[r].files))
    /\ downloadState'.estimatedBytes # downloadState.estimatedBytes =>
           \/ \E r \in Slots : jobs[r].phase = "listing" /\ jobs'[r] # jobs[r]
           \/ CancelButton \/ ClearLogButton
    /\ \A r \in Slots :
           (Downloading(jobs[r]) /\ jobs'[r] # jobs[r]) =>
               \/ downloadState'.estimatedBytes = downloadState.estimatedBytes
               \/ CancelButton \/ ClearLogButton
C34_EstimateSetOnce == [][C34_Step]_vars

\* C34 witness: a job of three descriptors, one of them without a size, is
\* in its retry pass after one success and the estimate is still 1 + 3.
C34_Witness ==
    /\ jobs["loop"].phase = "pass2"
    /\ ~jobs["loop"].aborted
    /\ jobs["loop"].files = <<1, 2, 3>>
    /\ downloadState.downloadedFiles = 1
    /\ downloadState.estimatedBytes = 4

\* C35: no wake-up is lost.  A start request (submit or Ctrl/Cmd+Enter) that
\* enqueues jobs leaves a run loop active whenever it leaves a job pending,
\* so that every job it enqueued is run, or removed, once the jobs before it
\* have ended; and isProcessingQueue is true exactly while a run loop is
\* active.
C35_StartRequest ==
    \E n \in 1..MaxJobs, f \in FilterIds, eager \in BOOLEAN :
        onSubmit(n, f, eager) \/ onKeyDown(n, f, eager)
C35_Step ==
    /\ downloadState'.isProcessingQueue <=> jobs'["loop"].phase # None
    /\ (enq' > enq /\ downloadState'.queue # << >>
            /\ ~downloadState'.isProcessingQueue) => ~C35_StartRequest
C35_NoLostWakeup == [][C35_Step]_vars

\* C36: whenever a job is running and its signal has not fired, the shared
\* reference downloadState.controller is the AbortController of that job, so
\* that a cancel request aborts it; the end or the start of another job does
\* not clear or replace it.
C36_ControllerOfRunningJob ==
    \A r \in Slots :
        (jobs[r].phase # None /\ ~jobs[r].aborted) => downloadState.controller = r

\* C37: after clearAll has reset the session, totalFiles, downloadedFiles
\* and estimatedBytes stay 0 and failedFiles stays empty until the next job
\* starts: no continuation of the cancelled job writes them.
\* clearAll has run during the job that is still going on: its signal has
\* fired and the controller reference is cleared
C37_ClearedDuring(r) ==
    jobs[r].phase # None /\ jobs[r].aborted /\ downloadState.controller = None
C37_Zero(ds) ==
    /\ ds.totalFiles = 0
    /\ ds.downloadedFiles = 0
    /\ ds.estimatedBytes = 0
    /\ ds.failedFiles = << >>
C37_Step ==
    ((\E r \in Slots : C37_ClearedDuring(r)) /\ C37_Zero(downloadState)
        /\ started' = started) => C37_Zero(downloadState')
C37_ResetStays == [][C37_Step]_vars

\* C38: clearQueue empties the queue and changes nothing else: the running
\* job, its signal, its archive, the session statistics, the controller and
\* the run-loop flag are as before.  A job that was removed is never started
\* afterwards, and the run loop goes idle when its job ends on an empty
\* queue.
C38_Step ==
    /\ (downloadState.queue # << >> /\ downloadState'.queue = << >>) =>
           \/ /\ jobs' = jobs
              /\ downloadState' = [downloadState EXCEPT !.queue = << >>]
              /\ <<busy, jszip, orphans, enq, started, ended, last>>'
                     = <<busy, jszip, orphans, enq, started, ended, last>>
           \/ ~ClearQueue
    /\ \A k \in 1..enq :
           (k \notin SetOf(Ids(downloadState.queue)) /\ k \notin SetOf(started))
               => k \notin SetOf(started')
    /\ (Ended("loop") /\ downloadState.queue = << >> /\ enq' = enq) =>
           (jobs'["loop"].phase = None /\ ~downloadState'.isProcessingQueue)
C38_ClearQueueOnly == [][C38_Step]_vars

\* C38 witness: two jobs were enqueued, the second was removed while the
\* first was running; the first has saved its archive without having been
\* cancelled and the runner is idle, the second never having started.
C38_Witness ==
    /\ enq = 2
    /\ started = <<1>>
    /\ ended = <<1>>
    /\ last["loop"].id = 1
    /\ last["loop"].outcome = "saved"
    /\ ~last["loop"].aborted
    /\ downloadState.queue = << >>
    /\ ~downloadState.isProcessingQueue
    /\ jobs["loop"].phase = None

\* C39: in the single-URL variant at most one download is active at any
\* time: a start request that arrives while a call of startDownload is under
\* way starts no second one on the same downloadState.
C39_Active == {r \in Slots : jobs[r].phase \notin {None, "rejected"}}
C39_OneDownload == Cardinality(C39_Active) <= 1

\* C40: in the single-URL variant the first downloadFile call that fails
\* while the signal is clear ends the job with an error: no descriptor is
\* admitted afterwards and no archive is generated or saved.  An archive is
\* saved only when each of the N fetches succeeded, and then
\* downloadedFiles = totalFiles = N.  (Stated for runs without any
\* cancellation.)
C40_NoCancel(r) ==
    ~jobs[r].aborted /\ \A q \in Slots : ~last[q].aborted
C40_Fails(r) ==
    LET j == jobs[r]  j2 == jobs'[r] IN
    (j.phase = "pass1" /\ j2.phase \in {None, "rejected"} /\ C40_NoCancel(r)) =>
        \/ /\ last'[r].id = j.id
           /\ last'[r].outcome = "error"
           /\ \A k \in 1..Len(j2.st) : j2.st[k] = "fetching" => j.st[k] = "fetching"
        \/ SingleCancel
C40_Saves(r) ==
    LET j == jobs[r] IN
    (j.phase = "generating" /\ jobs'[r].phase = None /\ C40_NoCancel(r)) =>
        /\ last'[r].outcome = "saved"
        /\ j.zip = SetOf(j.files)
        /\ downloadState.totalFiles = Len(j.files)
        /\ downloadState.downloadedFiles = Len(j.files)
C40_FirstFailureEndsJob ==
    [][\A r \in Slots : C40_Fails(r) /\ C40_Saves(r)]_vars
====
